---- MODULE Spec2Model ----
(***************************************************************************)
(* A model of the POI side-detection and position-optimisation pipeline:   *)
(*   process_poi/side_detector.py  POIProcessor                            *)
(*   process_poi/POI_Optimizer.py  POIOptimizer, POIOptimizationProcessor  *)
(*                                                                         *)
(* Numbers.  Coordinates are whole degrees on a small patch at the         *)
(* equator, where the great-circle formulas of the source reduce to the    *)
(* planar ones; bearings are whole degrees and distances whole metres.     *)
(* Optional values (dict.get returning None) are None == <<>> and          *)
(* Some(v) == <<v>>.  The all_types column of a record is carried by no    *)
(* property below and is left out of the rows.                             *)
(***************************************************************************)
EXTENDS Integers, Sequences, FiniteSets, TLC

VARIABLES
    \* POIProcessor (side_detector.py)
    results,            \* the constructor's argument: route points with their nearby POIs
    segment_bearings,   \* self.segment_bearings
    poi_groups,         \* self.poi_groups: name -> list of (side, source_lat, source_lon)
    seen_records,       \* self.seen_records
    data_to_write,      \* self.data_to_write
    current_bearing,    \* process_pois: local current_bearing
    i,                  \* process_pois: index of the route point being handled (1-based)
    j,                  \* process_pois: index of the POI being handled within the point
    pc,                 \* position of process_pois
    error,              \* the exception that ended process_pois, if any
    first_call,         \* history: data_to_write and poi_groups as the first call of
                        \* process_pois left them, None until it is called again
    \* a call of POIProcessor.determine_side
    arg_poi_bearing,    \* its first argument
    arg_route_bearing,  \* its second argument
    side_result,        \* what it returned, None before the call
    \* POIOptimizationProcessor.optimize_poi_positions (POI_Optimizer.py)
    input_csv,          \* the rows of the input file
    opt_groups,         \* local poi_groups: (name, group) in insertion order
    optimized_results,  \* local optimized_results
    output_csv,         \* the rows written to output_csv_optimized, None before the write
    ri,                 \* index of the input row being read (1-based)
    gi,                 \* index of the group being optimized (1-based)
    opt_pc,             \* position of optimize_poi_positions
    \* POIOptimizationProcessor.group_similar_pois
    given_groups,       \* the argument as it was at the call
    arg_groups,         \* the argument poi_groups, whose lists the call extends in place
    merged_poi_groups,  \* local merged_poi_groups: (name, group) in insertion order
    processed_names,    \* local processed_names
    mi,                 \* index of the outer loop over poi_groups.keys() (1-based)
    merge_pc            \* position of group_similar_pois

procVars == <<results, segment_bearings, poi_groups, seen_records, data_to_write,
              current_bearing, i, j, pc, error, first_call>>

sideVars == <<arg_poi_bearing, arg_route_bearing, side_result>>

optVars == <<input_csv, opt_groups, optimized_results, output_csv, ri, gi, opt_pc>>

mergeVars == <<given_groups, arg_groups, merged_poi_groups, processed_names, mi, merge_pc>>

vars == <<procVars, sideVars, optVars, mergeVars>>

----------------------------------------------------------------------------
(* Bounds of the model *)

\* longest route (number of route points)
MaxPoints == 3
\* most nearby POIs over the whole route
MaxObs == 3
\* most rows of the optimizer's input file
MaxRows == 3
\* most names handed to group_similar_pois
MaxNames == 3

----------------------------------------------------------------------------
(* Values *)

None == <<>>
Some(v) == <<v>>

\* route points: the origin and the point one degree north of it
Coords == {[lat |-> 0, lon |-> 0], [lat |-> 1, lon |-> 0]}

Names == {"A", "B"}

\* POIs as the nearby search returns them: name, location.get("lat"),
\* location.get("lng").  A east, A west, B east of the route, and an A
\* whose location is missing.
POIs == {[name |-> "A", lat |-> Some(0), lng |-> Some(1)],
         [name |-> "A", lat |-> Some(0), lng |-> Some(-1)],
         [name |-> "B", lat |-> Some(0), lng |-> Some(1)],
         [name |-> "A", lat |-> None,    lng |-> None]}

\* the nearby lists of a route of n points holding at most budget POIs in all
RECURSIVE NearbyLists(_, _)
NearbyLists(n, budget) ==
    IF n = 0 THEN {<<>>}
    ELSE UNION {{Append(rest, l) : rest \in NearbyLists(n - 1, budget - k),
                                   l \in [1..k -> POIs]} :
                k \in 0..budget}

\* the components a specification does not exercise stay as they are here
ProcOff ==
    /\ results = <<>>
    /\ segment_bearings = <<>>
    /\ poi_groups = <<>>
    /\ seen_records = {}
    /\ data_to_write = <<>>
    /\ current_bearing = None
    /\ i = 0
    /\ j = 0
    /\ pc = "off"
    /\ error = None
    /\ first_call = None

SideOff ==
    /\ arg_poi_bearing = 0
    /\ arg_route_bearing = 0
    /\ side_result = None

OptOff ==
    /\ input_csv = <<>>
    /\ opt_groups = <<>>
    /\ optimized_results = <<>>
    /\ output_csv = None
    /\ ri = 0
    /\ gi = 0
    /\ opt_pc = "off"

MergeOff ==
    /\ given_groups = <<>>
    /\ arg_groups = <<>>
    /\ merged_poi_groups = <<>>
    /\ processed_names = {}
    /\ mi = 0
    /\ merge_pc = "off"

----------------------------------------------------------------------------
(* GeoMath: calculate_bearing, haversine_and_bearing *)

Abs(x) == IF x < 0 THEN -x ELSE x

\* math.degrees(math.atan2(x, y)) in whole degrees, in (-180, 180], for the
\* directions of the patch: along an axis or a diagonal.  atan2(0, 0) = 0.
Atan2Degrees(x, y) ==
    CASE x = 0 /\ y >= 0 -> 0
      [] x = 0 /\ y < 0 -> 180
      [] y = 0 /\ x > 0 -> 90
      [] y = 0 /\ x < 0 -> -90
      [] x > 0 /\ y > 0 -> 45
      [] x > 0 /\ y < 0 -> 135
      [] x < 0 /\ y > 0 -> -45
      [] x < 0 /\ y < 0 -> -135

\* x is the east component (sin(delta_lon) * cos(lat2)), y the north one
calculate_bearing(lat1, lon1, lat2, lon2) ==
    (Atan2Degrees(lon2 - lon1, lat2 - lat1) + 360) % 360

\* EARTH_RADIUS * c in whole metres: one degree of arc is 111195 m, the
\* diagonal of the one-degree square at the equator 157249 m
haversine_distance(lat1, lon1, lat2, lon2) ==
    LET dlat == Abs(lat2 - lat1)
        dlon == Abs(lon2 - lon1)
    IN  IF dlat = 0 THEN 111195 * dlon
        ELSE IF dlon = 0 THEN 111195 * dlat
        ELSE 157249 * dlat

haversine_and_bearing(lat1, lon1, lat2, lon2) ==
    [distance |-> haversine_distance(lat1, lon1, lat2, lon2),
     bearing |-> (Atan2Degrees(lon2 - lon1, lat2 - lat1) + 360) % 360]

----------------------------------------------------------------------------
(* SideClassifier: determine_side *)

determine_side_strict(poi_bearing, route_bearing) ==
    LET delta == (poi_bearing - route_bearing + 360) % 360
    IN  IF 0 <= delta /\ delta < 180 THEN "Right" ELSE "Left"

determine_side(poi_bearing, route_bearing) ==
    LET delta == (poi_bearing - route_bearing + 360) % 360
    IN  IF 0 <= delta /\ delta <= 180 THEN "Right" ELSE "Left"

----------------------------------------------------------------------------
(* POIProcessor *)

\* _calculate_segment_bearings: one bearing per consecutive pair of points
calculate_segment_bearings(res) ==
    [k \in 1..(IF Len(res) = 0 THEN 0 ELSE Len(res) - 1) |->
        calculate_bearing(res[k].coordinate.lat, res[k].coordinate.lon,
                          res[k + 1].coordinate.lat, res[k + 1].coordinate.lon)]

\* the state after POIProcessor(results), for every route of at most MaxPoints
\* points with at most MaxObs nearby POIs
Init ==
    /\ \E n \in 0..MaxPoints :
         \E route \in [1..n -> Coords], near \in NearbyLists(n, MaxObs) :
            results = [k \in 1..n |-> [coordinate |-> route[k], nearby |-> near[k]]]
    /\ segment_bearings = calculate_segment_bearings(results)
    /\ poi_groups = [n \in Names |-> <<>>]
    /\ seen_records = {}
    /\ data_to_write = <<>>
    /\ current_bearing = None
    /\ i = 1
    /\ j = 1
    /\ pc = "point"
    /\ error = None
    /\ first_call = None
    /\ SideOff /\ OptOff /\ MergeOff

\* segment_bearings[i] if i < len(segment_bearings) else segment_bearings[-1],
\* for the 1-based point index k; None when segment_bearings[-1] does not exist
CurrentBearing_first(bearings, k) ==
    IF k <= Len(bearings) THEN Some(bearings[k])
    ELSE IF Len(bearings) = 0 THEN None
    ELSE Some(bearings[1])

CurrentBearing(bearings, k) ==
    IF k <= Len(bearings) THEN Some(bearings[k])
    ELSE IF Len(bearings) = 0 THEN None
    ELSE Some(bearings[Len(bearings)])

\* the loop head of process_pois for route point i: read the point and pick
\* its bearing; an empty segment_bearings makes segment_bearings[-1] raise
EnterPoint ==
    /\ pc = "point"
    /\ i <= Len(results)
    /\ LET b == CurrentBearing(segment_bearings, i)
       IN  IF b = None
           THEN /\ pc' = "raised"
                /\ error' = Some("IndexError")
                /\ UNCHANGED <<current_bearing, i, j>>
           ELSE /\ current_bearing' = b
                /\ error' = error
                /\ IF Len(results[i].nearby) = 0
                   THEN /\ i' = i + 1
                        /\ pc' = "point"
                        /\ j' = j
                   ELSE /\ i' = i
                        /\ pc' = "poi"
                        /\ j' = 1
    /\ UNCHANGED <<results, segment_bearings, poi_groups, seen_records, data_to_write>>
    /\ UNCHANGED <<first_call, sideVars, optVars, mergeVars>>

\* record_key in self.seen_records
IsSeen_never(record_key, seen) == FALSE

IsSeen(record_key, seen) == record_key \in seen

\* the position after POI j of point i
Advance ==
    IF j = Len(results[i].nearby)
    THEN /\ i' = i + 1
         /\ j' = 1
         /\ pc' = "point"
    ELSE /\ i' = i
         /\ j' = j + 1
         /\ pc' = "poi"

\* the body of the inner loop of process_pois for POI j of route point i
ProcessPoi ==
    /\ pc = "poi"
    /\ j <= Len(results[i].nearby)
    /\ LET source_lat == results[i].coordinate.lat
           source_lon == results[i].coordinate.lon
           poi == results[i].nearby[j]
       IN  IF poi.lat = None \/ poi.lng = None
           THEN \* haversine_and_bearing subtracts from None
                /\ pc' = "raised"
                /\ error' = Some("TypeError")
                /\ UNCHANGED <<i, j, poi_groups, seen_records, data_to_write>>
           ELSE LET poi_lat == poi.lat[1]
                    poi_lon == poi.lng[1]
                    hb == haversine_and_bearing(source_lat, source_lon, poi_lat, poi_lon)
                    side == determine_side(hb.bearing, current_bearing[1])
                    record_key == <<source_lat, source_lon, poi_lat, poi_lon, poi.name>>
                IN  /\ error' = error
                    /\ Advance
                    /\ IF IsSeen(record_key, seen_records)
                       THEN UNCHANGED <<poi_groups, seen_records, data_to_write>>
                       ELSE /\ seen_records' = seen_records \cup {record_key}
                            /\ data_to_write' = Append(data_to_write,
                                   [source_lat |-> source_lat, source_lon |-> source_lon,
                                    poi_name |-> poi.name,
                                    poi_lat |-> poi_lat, poi_lon |-> poi_lon,
                                    distance |-> hb.distance, bearing |-> hb.bearing,
                                    side |-> side, shared_with |-> None])
                            /\ poi_groups' = [poi_groups EXCEPT ![poi.name] =
                                   Append(@, <<side, source_lat, source_lon>>)]
    /\ UNCHANGED <<results, segment_bearings, current_bearing>>
    /\ UNCHANGED <<first_call, sideVars, optVars, mergeVars>>

\* the number of members of kind side among shared_sources
SideCount(shared_sources, side) ==
    Cardinality({k \in 1..Len(shared_sources) : shared_sources[k][1] = side})

\* "Right" if side_counts["Right"] > side_counts["Left"] else "Left"
MajoritySide_ties_right(shared_sources) ==
    IF SideCount(shared_sources, "Right") >= SideCount(shared_sources, "Left")
    THEN "Right" ELSE "Left"

MajoritySide(shared_sources) ==
    IF SideCount(shared_sources, "Right") > SideCount(shared_sources, "Left")
    THEN "Right" ELSE "Left"

\* "; ".join(f"{lat}, {lon}" for _, lat, lon in shared_sources): the list of
\* the members' source coordinates, in order
SharedWith(shared_sources) ==
    [k \in 1..Len(shared_sources) |-> <<shared_sources[k][2], shared_sources[k][3]>>]

\* one pass of the loop of _update_shared_details over a row
UpdatedRow_shared_inside_if(row, shared_sources) ==
    IF Len(shared_sources) > 1
    THEN [row EXCEPT !.side = MajoritySide(shared_sources),
                     !.shared_with = Some(SharedWith(shared_sources))]
    ELSE row

UpdatedRow_keeps_side(row, shared_sources) ==
    [row EXCEPT !.shared_with = Some(SharedWith(shared_sources))]

UpdatedRow(row, shared_sources) ==
    [(IF Len(shared_sources) > 1
      THEN [row EXCEPT !.side = MajoritySide(shared_sources)]
      ELSE row)
     EXCEPT !.shared_with = Some(SharedWith(shared_sources))]

\* the end of process_pois: the loop is over, _update_shared_details runs
UpdateSharedDetails ==
    /\ pc = "point"
    /\ i > Len(results)
    /\ data_to_write' = [k \in 1..Len(data_to_write) |->
           UpdatedRow(data_to_write[k], poi_groups[data_to_write[k].poi_name])]
    /\ pc' = "done"
    /\ UNCHANGED <<results, segment_bearings, poi_groups, seen_records,
                   current_bearing, i, j, error>>
    /\ UNCHANGED <<first_call, sideVars, optVars, mergeVars>>

Next ==
    \/ EnterPoint
    \/ ProcessPoi
    \/ UpdateSharedDetails

Spec == Init /\ [][Next]_vars

\* process_pois is called again on the same POIProcessor, after a call that
\* returned or raised: the loop starts over on the same self.results, with
\* seen_records, data_to_write and poi_groups as the earlier calls left them
ProcessPoisAgain_fresh_seen ==
    /\ pc \in {"done", "raised"}
    /\ first_call' = IF first_call = None
                     THEN Some([data_to_write |-> data_to_write, poi_groups |-> poi_groups])
                     ELSE first_call
    /\ seen_records' = {}
    /\ pc' = "point"
    /\ i' = 1
    /\ j' = 1
    /\ current_bearing' = None
    /\ error' = None
    /\ UNCHANGED <<results, segment_bearings, poi_groups, data_to_write>>
    /\ UNCHANGED <<sideVars, optVars, mergeVars>>

ProcessPoisAgain ==
    /\ pc \in {"done", "raised"}
    /\ first_call' = IF first_call = None
                     THEN Some([data_to_write |-> data_to_write, poi_groups |-> poi_groups])
                     ELSE first_call
    /\ pc' = "point"
    /\ i' = 1
    /\ j' = 1
    /\ current_bearing' = None
    /\ error' = None
    /\ UNCHANGED <<results, segment_bearings, poi_groups, seen_records, data_to_write>>
    /\ UNCHANGED <<sideVars, optVars, mergeVars>>

NextAgain ==
    \/ EnterPoint
    \/ ProcessPoi
    \/ UpdateSharedDetails
    \/ ProcessPoisAgain

SpecAgain == Init /\ [][NextAgain]_vars

----------------------------------------------------------------------------
(* A call of determine_side on whole-degree bearings *)

\* route bearings as calculate_bearing returns them; POI bearings over a range
\* that holds arg_route_bearing - 90 and arg_route_bearing + 180 for each of them
InitSide ==
    /\ arg_route_bearing \in 0..359
    /\ arg_poi_bearing \in (-90)..539
    /\ side_result = None
    /\ ProcOff /\ OptOff /\ MergeOff

DetermineSide ==
    /\ side_result = None
    /\ side_result' = Some(determine_side(arg_poi_bearing, arg_route_bearing))
    /\ UNCHANGED <<arg_poi_bearing, arg_route_bearing>>
    /\ UNCHANGED <<procVars, optVars, mergeVars>>

NextSide == DetermineSide

SpecSide == InitSide /\ [][NextSide]_vars

----------------------------------------------------------------------------
(* POIOptimizer *)

RECURSIVE Sum(_)
Sum(seq) == IF seq = <<>> THEN 0 ELSE seq[1] + Sum(Tail(seq))

\* np.mean(distances), in whole metres
calculate_average_distance(distances) == Sum(distances) \div Len(distances)

\* min(poi_group, key=lambda x: x[2]): the first member of least bearing
find_min_bearing(poi_group) ==
    LET least == CHOOSE k \in 1..Len(poi_group) :
                    /\ \A l \in 1..Len(poi_group) : poi_group[k][3] <= poi_group[l][3]
                    /\ \A l \in 1..(k - 1) : poi_group[l][3] > poi_group[k][3]
    IN  poi_group[least]

\* a thousand times the cosine and the sine of a compass bearing
Cos1000(bearing) ==
    CASE bearing = 0 -> 1000
      [] bearing = 45 -> 707
      [] bearing = 90 -> 0
      [] bearing = 135 -> -707
      [] bearing = 180 -> -1000
      [] bearing = 225 -> -707
      [] bearing = 270 -> 0
      [] bearing = 315 -> 707

Sin1000(bearing) == Cos1000((bearing + 270) % 360)

\* the point at distance metres from (lat, lon) along bearing, in units of
\* 1/100000 degree: on the patch 1.112 m north is one unit of latitude and
\* 1.112 m east one unit of longitude
calculate_new_position(lat, lon, bearing, distance) ==
    LET north == (distance * Cos1000(bearing)) \div 1000
        east == (distance * Sin1000(bearing)) \div 1000
    IN  <<lat * 100000 + (north * 1000) \div 1112,
          lon * 100000 + (east * 1000) \div 1112>>

----------------------------------------------------------------------------
(* POIOptimizationProcessor.optimize_poi_positions *)

\* a row of the input file as POIProcessor.write_to_csv writes it
CsvRow(c, poi, side) ==
    LET hb == haversine_and_bearing(c.lat, c.lon, poi.lat[1], poi.lng[1])
    IN  [source_lat |-> c.lat, source_lon |-> c.lon, poi_name |-> poi.name,
         poi_lat |-> poi.lat[1], poi_lon |-> poi.lng[1],
         distance |-> hb.distance, bearing |-> hb.bearing, side |-> side]

\* the rows the input file may hold: every located POI seen from every route
\* point on either side, and a row whose name is empty
CsvRows ==
    {CsvRow(c, poi, side) : c \in Coords,
                            poi \in {q \in POIs : q.lat # None /\ q.lng # None},
                            side \in {"Right", "Left"}}
    \cup {[CsvRow(c, poi, "Right") EXCEPT !.poi_name = ""] :
            c \in {[lat |-> 0, lon |-> 0]},
            poi \in {[name |-> "A", lat |-> Some(0), lng |-> Some(1)]}}

\* row['side'].lower()
Lower(side) ==
    CASE side = "Right" -> "right"
      [] side = "Left" -> "left"

\* the start of optimize_poi_positions on an input file of at most MaxRows rows
InitOpt ==
    /\ \E n \in 0..MaxRows : input_csv \in [1..n -> CsvRows]
    /\ opt_groups = <<>>
    /\ optimized_results = <<>>
    /\ output_csv = None
    /\ ri = 1
    /\ gi = 1
    /\ opt_pc = "run"
    /\ ProcOff /\ SideOff /\ MergeOff

\* whether Step 1 keeps a row: its name is not empty and its side is right
KeepsRow_any_side(row) == row.poi_name # ""

KeepsRow(row) == row.poi_name # "" /\ Lower(row.side) = "right"

\* poi_groups[poi_name].append(member), the group created when the name is new
AppendMember(groups, poi_name, member) ==
    IF \E k \in 1..Len(groups) : groups[k].name = poi_name
    THEN [k \in 1..Len(groups) |->
            IF groups[k].name = poi_name
            THEN [groups[k] EXCEPT !.group = Append(@, member)]
            ELSE groups[k]]
    ELSE Append(groups, [name |-> poi_name, group |-> <<member>>])

\* Step 1, one row of the reader
ReadRow ==
    /\ opt_pc = "run"
    /\ ri <= Len(input_csv)
    /\ LET row == input_csv[ri]
       IN  opt_groups' =
               IF KeepsRow(row)
               THEN AppendMember(opt_groups, row.poi_name,
                        <<row.poi_lat, row.poi_lon, row.bearing, row.distance,
                          row.source_lat, row.source_lon>>)
               ELSE opt_groups
    /\ ri' = ri + 1
    /\ UNCHANGED <<input_csv, optimized_results, output_csv, gi, opt_pc>>
    /\ UNCHANGED <<procVars, sideVars, mergeVars>>

\* the rows Step 2 adds for one group: one per member, all at the group's
\* optimal position
GroupResults(poi_name, group) ==
    LET average_distance ==
            calculate_average_distance([k \in 1..Len(group) |-> group[k][4]])
        min_bearing_point == find_min_bearing(group)
        optimal == calculate_new_position(min_bearing_point[1], min_bearing_point[2],
                                          min_bearing_point[3], average_distance)
    IN  [k \in 1..Len(group) |->
            [source_lat |-> group[k][5], source_lon |-> group[k][6],
             poi_name |-> poi_name,
             optimal_lat |-> optimal[1], optimal_lon |-> optimal[2]]]

\* Step 2, one group
OptimizeGroup ==
    /\ opt_pc = "run"
    /\ ri > Len(input_csv)
    /\ gi <= Len(opt_groups)
    /\ optimized_results' =
           optimized_results \o GroupResults(opt_groups[gi].name, opt_groups[gi].group)
    /\ gi' = gi + 1
    /\ UNCHANGED <<input_csv, opt_groups, output_csv, ri, opt_pc>>
    /\ UNCHANGED <<procVars, sideVars, mergeVars>>

\* Step 3: the rows are written under the header
WriteOptimized ==
    /\ opt_pc = "run"
    /\ ri > Len(input_csv)
    /\ gi > Len(opt_groups)
    /\ output_csv' = Some(optimized_results)
    /\ opt_pc' = "done"
    /\ UNCHANGED <<input_csv, opt_groups, optimized_results, ri, gi>>
    /\ UNCHANGED <<procVars, sideVars, mergeVars>>

NextOpt ==
    \/ ReadRow
    \/ OptimizeGroup
    \/ WriteOptimized

SpecOpt == InitOpt /\ [][NextOpt]_vars

----------------------------------------------------------------------------
(* POIOptimizationProcessor.group_similar_pois *)

\* names are sequences of characters
PoiNames == {<<"a", "b", "c">>, <<"A", "b", "c">>, <<"a", "b", "c", "d">>,
             <<"b", "c", "d">>, <<"x", "y", "z">>}

\* str.lower() on a character
LowerChar(c) == IF c = "A" THEN "a" ELSE c

\* str.lower()
lower(name) == [k \in 1..Len(name) |-> LowerChar(name[k])]

Max(a, b) == IF a >= b THEN a ELSE b

\* the number of matching characters of two strings
RECURSIVE Matches(_, _)
Matches(a, b) ==
    IF a = <<>> \/ b = <<>> THEN 0
    ELSE IF a[1] = b[1] THEN 1 + Matches(Tail(a), Tail(b))
    ELSE Max(Matches(Tail(a), b), Matches(a, Tail(b)))

\* Python's round(): to the nearest integer, a half to the even one
RoundRatio(num, den) ==
    LET q == num \div den
        rem == num % den
    IN  IF 2 * rem < den THEN q
        ELSE IF 2 * rem > den THEN q + 1
        ELSE IF q % 2 = 0 THEN q ELSE q + 1

\* fuzz.ratio(a, b): int(round(100 * 2 * matches / (len(a) + len(b)))), 0 when
\* a string is empty
fuzz_ratio(a, b) ==
    IF a = <<>> \/ b = <<>> THEN 0
    ELSE RoundRatio(200 * Matches(a, b), Len(a) + Len(b))

\* group_similar_pois(poi_groups) is called on at most MaxNames distinct
\* names; member k of the group of a name is the observation <<name, k>>
InitMerge ==
    /\ \E n \in 0..MaxNames :
         \E keys \in {f \in [1..n -> PoiNames] :
                        \A a, b \in 1..n : a # b => f[a] # f[b]},
            sizes \in [1..n -> {1, 2}] :
            given_groups = [k \in 1..n |->
                [name |-> keys[k],
                 group |-> [l \in 1..sizes[k] |-> <<keys[k], l>>]]]
    /\ arg_groups = given_groups
    /\ merged_poi_groups = <<>>
    /\ processed_names = {}
    /\ mi = 1
    /\ merge_pc = "run"
    /\ ProcOff /\ SideOff /\ OptOff

\* fuzz.ratio(poi_name.lower(), other_name.lower()) > 85
Similar_case_sensitive(poi_name, other_name) == fuzz_ratio(poi_name, other_name) > 85

Similar(poi_name, other_name) == fuzz_ratio(lower(poi_name), lower(other_name)) > 85

\* the inner loop from key k on: the seed's list and processed_names after it
RECURSIVE ScanOthers(_, _, _, _, _)
ScanOthers(groups, poi_name, k, list, processed) ==
    IF k > Len(groups) THEN [list |-> list, processed |-> processed]
    ELSE LET other_name == groups[k].name
         IN  IF other_name \in processed
             THEN ScanOthers(groups, poi_name, k + 1, list, processed)
             ELSE IF Similar(poi_name, other_name)
             THEN ScanOthers(groups, poi_name, k + 1, list \o groups[k].group,
                             processed \cup {other_name})
             ELSE ScanOthers(groups, poi_name, k + 1, list, processed)

\* one pass of the outer loop, for key mi (1-based)
MergeName ==
    /\ merge_pc = "run"
    /\ mi <= Len(arg_groups)
    /\ LET poi_name == arg_groups[mi].name
       IN  IF poi_name \in processed_names
           THEN UNCHANGED <<arg_groups, merged_poi_groups, processed_names>>
           ELSE LET scan == ScanOthers(arg_groups, poi_name, 1, arg_groups[mi].group,
                                       processed_names \cup {poi_name})
                IN  /\ merged_poi_groups' =
                           Append(merged_poi_groups, [name |-> poi_name, group |-> scan.list])
                    \* merged_poi_groups[poi_name] is the list object of
                    \* poi_groups[poi_name]: extend() grows both
                    /\ arg_groups' = [arg_groups EXCEPT ![mi].group = scan.list]
                    /\ processed_names' = scan.processed
    /\ mi' = mi + 1
    /\ UNCHANGED <<given_groups, merge_pc>>
    /\ UNCHANGED <<procVars, sideVars, optVars>>

\* return merged_poi_groups
ReturnMerged ==
    /\ merge_pc = "run"
    /\ mi > Len(arg_groups)
    /\ merge_pc' = "done"
    /\ UNCHANGED <<given_groups, arg_groups, merged_poi_groups, processed_names, mi>>
    /\ UNCHANGED <<procVars, sideVars, optVars>>

NextMerge ==
    \/ MergeName
    \/ ReturnMerged

SpecMerge == InitMerge /\ [][NextMerge]_vars

----------------------------------------------------------------------------
(* Vocabulary of the properties *)

Range(f) == {f[k] : k \in DOMAIN f}

\* the rows of data_to_write carrying POI name n, in order; row m of them was
\* built together with member m of poi_groups[n]
NameRows(n) == SelectSeq(data_to_write, LAMBDA row : row.poi_name = n)

RowKey(row) == <<row.source_lat, row.source_lon, row.poi_lat, row.poi_lon, row.poi_name>>

\* every (route point, POI) observation of the input, in input order
RECURSIVE Observations(_)
Observations(res) ==
    IF res = <<>> THEN <<>>
    ELSE LET last == res[Len(res)]
         IN  Observations(SubSeq(res, 1, Len(res) - 1)) \o
             [k \in 1..Len(last.nearby) |-> [source |-> last.coordinate, poi |-> last.nearby[k]]]

HasLocation(o) == o.poi.lat # None /\ o.poi.lng # None

ObservationKey(o) == <<o.source.lat, o.source.lon, o.poi.lat[1], o.poi.lng[1], o.poi.name>>

\* a sequence without its repeats, first occurrences kept in order
RECURSIVE FirstOccurrences(_)
FirstOccurrences(seq) ==
    IF seq = <<>> THEN <<>>
    ELSE LET front == FirstOccurrences(SubSeq(seq, 1, Len(seq) - 1))
             last == seq[Len(seq)]
         IN  IF last \in Range(front) THEN front ELSE Append(front, last)

\* the identity keys of the located observations of the input, repeats dropped
ExpectedKeys ==
    LET located == SelectSeq(Observations(results), HasLocation)
    IN  FirstOccurrences([k \in 1..Len(located) |-> ObservationKey(located[k])])

Rights(n) == SideCount(poi_groups[n], "Right")
Lefts(n) == SideCount(poi_groups[n], "Left")

\* the step that runs _update_shared_details
Consolidating == pc = "point" /\ pc' = "done"

----------------------------------------------------------------------------
(* C1 *)

\* the clockwise angle, in 0..359, that turns bearing from onto bearing to
ClockwiseAngle(from, to) ==
    LET diff == to - from
    IN  CASE diff < -360 -> diff + 720
          [] diff >= -360 /\ diff < 0 -> diff + 360
          [] diff >= 0 /\ diff < 360 -> diff
          [] diff >= 360 -> diff - 360

\* C1: determine_side returns "Right" exactly when the POI bearing lies 0 to
\* 180 degrees clockwise of the route bearing, both ends included, and "Left"
\* otherwise; so b against b, b + 90 against b and b + 180 against b are
\* "Right" and b - 90 against b is "Left".
C1_RightWithinHalfTurn ==
    side_result # None =>
        /\ side_result \in {Some("Right"), Some("Left")}
        /\ side_result = Some("Right") <=>
               ClockwiseAngle(arg_route_bearing, arg_poi_bearing) <= 180
        /\ arg_poi_bearing = arg_route_bearing => side_result = Some("Right")
        /\ arg_poi_bearing = arg_route_bearing + 90 => side_result = Some("Right")
        /\ arg_poi_bearing = arg_route_bearing + 180 => side_result = Some("Right")
        /\ arg_poi_bearing = arg_route_bearing - 90 => side_result = Some("Left")

\* the call returned "Right" for a POI exactly opposite the route bearing,
\* with the POI bearing past the full turn
C1_Witness ==
    /\ side_result = Some("Right")
    /\ arg_poi_bearing = arg_route_bearing + 180
    /\ arg_poi_bearing >= 360

----------------------------------------------------------------------------
(* C2 *)

\* C2: after process_pois, when the members of a POI name's group have a
\* strict majority of one per-observation side, every record of that name
\* carries the majority side, whatever side its own observation had.
C2_MajoritySide ==
    pc = "done" =>
        \A n \in Names :
            /\ Rights(n) > Lefts(n) =>
                   \A row \in Range(NameRows(n)) : row.side = "Right"
            /\ Lefts(n) > Rights(n) =>
                   \A row \in Range(NameRows(n)) : row.side = "Left"

\* a group with two sides seen and a strict majority, where a record whose own
\* observation was on the minority side now carries the majority side
C2_Witness ==
    /\ pc = "done"
    /\ \E n \in Names :
          /\ Rights(n) > Lefts(n)
          /\ Lefts(n) >= 1
          /\ \E m \in 1..Len(poi_groups[n]) :
                /\ poi_groups[n][m][1] = "Left"
                /\ NameRows(n)[m].side = "Right"

----------------------------------------------------------------------------
(* C3 *)

\* C3 as stated: after process_pois, a group of more than one member with as
\* many "Right" as "Left" per-observation sides gives every record "Right".
C3_TieIsRight ==
    pc = "done" =>
        \A n \in Names :
            (Len(poi_groups[n]) > 1 /\ Rights(n) = Lefts(n)) =>
                \A row \in Range(NameRows(n)) : row.side = "Right"

\* C3 as amended: after process_pois, a group of more than one member with
\* as many "Right" as "Left" per-observation sides gives every record "Left".
C3_TieIsLeft ==
    pc = "done" =>
        \A n \in Names :
            (Len(poi_groups[n]) > 1 /\ Rights(n) = Lefts(n)) =>
                \A row \in Range(NameRows(n)) : row.side = "Left"

\* a tied group where a record observed on the right ends up "Left"
C3_Witness ==
    /\ pc = "done"
    /\ \E n \in Names :
          /\ Len(poi_groups[n]) > 1
          /\ Rights(n) = Lefts(n)
          /\ \E m \in 1..Len(poi_groups[n]) :
                /\ poi_groups[n][m][1] = "Right"
                /\ NameRows(n)[m].side = "Left"

----------------------------------------------------------------------------
(* C4 *)

\* C4: process_pois keeps at most one record per identity key (source_lat,
\* source_lon, poi_lat, poi_lon, name); a repeat of an earlier key adds no
\* record and no group member; the records are the first occurrences of the
\* keys, in input order.
C4_Deduplicated ==
    /\ \A a, b \in 1..Len(data_to_write) :
           a # b => RowKey(data_to_write[a]) # RowKey(data_to_write[b])
    /\ \A n \in Names : Len(poi_groups[n]) = Len(NameRows(n))
    /\ pc = "done" =>
           /\ [k \in 1..Len(data_to_write) |-> RowKey(data_to_write[k])] = ExpectedKeys
           /\ \A n \in Names :
                  \A m \in 1..Len(poi_groups[n]) :
                      /\ poi_groups[n][m][2] = NameRows(n)[m].source_lat
                      /\ poi_groups[n][m][3] = NameRows(n)[m].source_lon

\* a finished run whose input repeated a key: fewer records than observations
C4_Witness ==
    /\ pc = "done"
    /\ Len(data_to_write) >= 2
    /\ Len(Observations(results)) > Len(data_to_write)

----------------------------------------------------------------------------
(* C5 *)

\* C5: with fewer than 2 route points, process_pois raises nothing and ends
\* with no processed record.
C5_DegenerateRouteIsEmpty ==
    Len(results) < 2 =>
        /\ pc # "raised"
        /\ pc = "done" => data_to_write = <<>>

----------------------------------------------------------------------------
(* C6 *)

\* C6: an observation whose POI latitude or longitude is missing is skipped
\* alone: process_pois does not abort on it, and the observations before and
\* after it are all processed into records.
C6_MissingLocationSkipped ==
    /\ ~(pc = "raised" /\ error = Some("TypeError"))
    /\ pc = "done" =>
           [k \in 1..Len(data_to_write) |-> RowKey(data_to_write[k])] = ExpectedKeys

----------------------------------------------------------------------------
(* C7 *)

\* the input rows with a name and the side "Right", in input order
Retained == SelectSeq(input_csv, LAMBDA row : row.poi_name # "" /\ row.side = "Right")

WithName(rows, n) == SelectSeq(rows, LAMBDA row : row.poi_name = n)

\* where name n first appears among rows
FirstIndex(rows, n) ==
    CHOOSE k \in 1..Len(rows) :
        /\ rows[k].poi_name = n
        /\ \A l \in 1..(k - 1) : rows[l].poi_name # n

\* the position the retained rows of name n give: from the first of them of
\* least bearing, along that bearing, by their mean distance
ExpectedOptimal(n) ==
    LET members == WithName(Retained, n)
        anchor == members[CHOOSE k \in 1..Len(members) :
                      /\ \A l \in 1..Len(members) : members[k].bearing <= members[l].bearing
                      /\ \A l \in 1..(k - 1) : members[l].bearing > members[k].bearing]
        mean == Sum([k \in 1..Len(members) |-> members[k].distance]) \div Len(members)
    IN  calculate_new_position(anchor.poi_lat, anchor.poi_lon, anchor.bearing, mean)

\* C7: optimize_poi_positions groups only the named rows whose side is
\* "Right", and writes one row per such row: the rows of a name keep the
\* sources of that name's retained rows in order and all carry the one
\* optimal position of the name, and the names follow each other in the
\* order of their first retained row.
C7_OneRowPerRightMember ==
    opt_pc = "done" =>
        LET out == output_csv[1]
        IN  /\ Len(out) = Len(Retained)
            /\ \A n \in {row.poi_name : row \in Range(out) \cup Range(input_csv)} :
                   LET rows == WithName(out, n)
                       kept == WithName(Retained, n)
                   IN  /\ Len(rows) = Len(kept)
                       /\ \A k \in 1..Len(rows) :
                              /\ rows[k].source_lat = kept[k].source_lat
                              /\ rows[k].source_lon = kept[k].source_lon
                              /\ <<rows[k].optimal_lat, rows[k].optimal_lon>> = ExpectedOptimal(n)
            /\ \A a, b \in 1..Len(out) :
                   out[a].poi_name = out[b].poi_name =>
                       /\ out[a].optimal_lat = out[b].optimal_lat
                       /\ out[a].optimal_lon = out[b].optimal_lon
            /\ \A a, b \in 1..Len(out) :
                   a < b => FirstIndex(Retained, out[a].poi_name)
                              <= FirstIndex(Retained, out[b].poi_name)

\* a finished run whose input held a "Left" row of a name beside two "Right"
\* rows of it seen from different route points: two rows are written for the
\* name, both at one position
C7_Witness ==
    /\ opt_pc = "done"
    /\ \E n \in {row.poi_name : row \in Range(input_csv)} :
          /\ \E row \in Range(input_csv) : row.poi_name = n /\ row.side = "Left"
          /\ Len(WithName(output_csv[1], n)) = 2
          /\ WithName(output_csv[1], n)[1].source_lat # WithName(output_csv[1], n)[2].source_lat
          /\ WithName(output_csv[1], n)[1].optimal_lat = WithName(output_csv[1], n)[2].optimal_lat
          /\ WithName(Retained, n)[1].poi_lon # WithName(Retained, n)[2].poi_lon

----------------------------------------------------------------------------
(* C8 *)

\* the segment whose bearing route point k (1-based) of n is to be classified against
ClaimedSegment(k, n) == IF k < n THEN k ELSE n - 1

\* C8: on a route of n >= 2 points, the POIs of every point but the last are
\* classified against the bearing of the segment leaving that point, and the
\* POIs of the last point against the bearing of the segment before it.
C8_SegmentOfPoint ==
    [][(pc = "poi" /\ Len(results) >= 2 /\ Len(data_to_write') = Len(data_to_write) + 1) =>
         LET row == data_to_write'[Len(data_to_write')]
             seg == ClaimedSegment(i, Len(results))
             from == results[seg].coordinate
             to == results[seg + 1].coordinate
             poi == results[i].nearby[j]
         IN  /\ row.source_lat = results[i].coordinate.lat
             /\ row.source_lon = results[i].coordinate.lon
             /\ row.poi_name = poi.name
             /\ row.bearing = calculate_bearing(row.source_lat, row.source_lon,
                                                poi.lat[1], poi.lng[1])
             /\ row.side = determine_side(row.bearing,
                               calculate_bearing(from.lat, from.lon, to.lat, to.lon))
      ]_vars

\* the loop is over on a route of three or more points whose last two
\* segments differ, and the last record, built at the last point, has a side
\* the first segment's bearing would not give
C8_Witness ==
    /\ pc = "point"
    /\ i = Len(results) + 1
    /\ Len(results) >= 3
    /\ Len(results[Len(results)].nearby) >= 1
    /\ data_to_write # <<>>
    /\ LET row == data_to_write[Len(data_to_write)]
           last == results[Len(results)]
       IN  /\ row.source_lat = last.coordinate.lat
           /\ row.source_lon = last.coordinate.lon
           /\ row.poi_name = last.nearby[Len(last.nearby)].name
           /\ row.side = determine_side(row.bearing, segment_bearings[Len(results) - 1])
           /\ row.side # determine_side(row.bearing, segment_bearings[1])

----------------------------------------------------------------------------
(* C9 *)

GivenName(k) == given_groups[k].name

\* two names are close: their case-insensitive ratio is above 85
Close(a, b) == fuzz_ratio(lower(a), lower(b)) > 85

\* the name at position k is a seed when no earlier seed is close to it
RECURSIVE IsSeed(_)
IsSeed(k) == \A l \in 1..(k - 1) : IsSeed(l) => ~Close(GivenName(l), GivenName(k))

\* the first seed, in encounter order, close to the name at position k
FirstCloseSeed(k) ==
    CHOOSE l \in 1..Len(given_groups) :
        /\ IsSeed(l) /\ Close(GivenName(l), GivenName(k))
        /\ \A e \in 1..(l - 1) : ~(IsSeed(e) /\ Close(GivenName(e), GivenName(k)))

\* the observations of the names at positions k.. that seed s takes, in order
RECURSIVE TakenFrom(_, _)
TakenFrom(s, k) ==
    IF k > Len(given_groups) THEN <<>>
    ELSE (IF ~IsSeed(k) /\ FirstCloseSeed(k) = s THEN given_groups[k].group ELSE <<>>)
         \o TakenFrom(s, k + 1)

\* the positions below k that are seeds, in order
RECURSIVE SeedsBelow(_)
SeedsBelow(k) ==
    IF k <= 1 THEN <<>>
    ELSE IF IsSeed(k - 1) THEN Append(SeedsBelow(k - 1), k - 1) ELSE SeedsBelow(k - 1)

\* C9: group_similar_pois is a greedy pass in encounter order.  A name is a
\* result key exactly when it is unprocessed when reached, that is when no
\* earlier seed is close to it; every other name goes to the first seed close
\* to it; a merged group is the seed's observations followed by those of the
\* names it took, in encounter order; every name lies in exactly one merged
\* group and no observation is lost or added.
C9_GreedyPartition ==
    /\ merge_pc \in {"run", "done"} =>
           \* the keys so far are the seeds reached so far, in order
           /\ [e \in 1..Len(merged_poi_groups) |-> merged_poi_groups[e].name]
                  = [e \in 1..Len(SeedsBelow(mi)) |-> GivenName(SeedsBelow(mi)[e])]
           \* the name about to be reached is unprocessed exactly when it is a seed
           /\ mi <= Len(given_groups) =>
                  (GivenName(mi) \notin processed_names <=> IsSeed(mi))
    /\ merge_pc = "done" =>
           LET seeds == SeedsBelow(Len(given_groups) + 1)
           IN  /\ Len(merged_poi_groups) = Len(seeds)
               /\ \A e \in 1..Len(seeds) :
                      merged_poi_groups[e].group =
                          given_groups[seeds[e]].group \o TakenFrom(seeds[e], 1)
               /\ \A k \in 1..Len(given_groups) :
                      Cardinality({e \in 1..Len(merged_poi_groups) :
                          <<GivenName(k), 1>> \in Range(merged_poi_groups[e].group)}) = 1
               /\ Sum([e \in 1..Len(merged_poi_groups) |-> Len(merged_poi_groups[e].group)])
                      = Sum([k \in 1..Len(given_groups) |-> Len(given_groups[k].group)])

\* a finished merge of three names where the second name, close to both the
\* first and the third, went to the first, and the third became a seed
C9_Witness ==
    /\ merge_pc = "done"
    /\ Len(given_groups) = 3
    /\ Len(merged_poi_groups) = 2
    /\ ~IsSeed(2) /\ IsSeed(3)
    /\ Close(GivenName(3), GivenName(2))
    /\ merged_poi_groups[1].group = given_groups[1].group \o given_groups[2].group
    /\ merged_poi_groups[2].group = given_groups[3].group

----------------------------------------------------------------------------
(* C10 *)

\* C10 as stated: the consolidation after record building leaves the side and
\* the shared_with of every record whose group has one member as they were.
C10_SingleUntouched ==
    [][Consolidating =>
         \A k \in 1..Len(data_to_write) :
             Len(poi_groups[data_to_write[k].poi_name]) = 1 =>
                 /\ data_to_write'[k].side = data_to_write[k].side
                 /\ data_to_write'[k].shared_with = data_to_write[k].shared_with
      ]_vars

\* C10 as amended: the consolidation leaves the side of every record whose
\* group has one member as it was, and sets its shared_with to the list
\* holding that record's own source coordinates.
C10_SingleSideKept ==
    [][Consolidating =>
         \A k \in 1..Len(data_to_write) :
             Len(poi_groups[data_to_write[k].poi_name]) = 1 =>
                 data_to_write'[k] =
                     [data_to_write[k] EXCEPT !.shared_with =
                         Some(<<<<data_to_write[k].source_lat, data_to_write[k].source_lon>>>>)]
      ]_vars

\* a finished run with a single-member group on the left beside a group of
\* several members
C10_Witness ==
    /\ pc = "done"
    /\ \E n, o \in Names :
          /\ Len(poi_groups[n]) = 1
          /\ Len(poi_groups[o]) > 1
          /\ poi_groups[n][1][1] = "Left"
          /\ NameRows(n)[1].side = "Left"
          /\ NameRows(n)[1].shared_with =
                 Some(<<<<NameRows(n)[1].source_lat, NameRows(n)[1].source_lon>>>>)

----------------------------------------------------------------------------
(* C11 *)

\* C11: calling process_pois again on the same POIProcessor changes nothing:
\* from the second call on no record is appended to data_to_write and no
\* member to a POI group, and every record keeps the side and the shared_with
\* the first call left; after any number of calls a name's group has as many
\* members as data_to_write has records of that name.
C11_SecondCallIdempotent ==
    /\ \A n \in Names : Len(poi_groups[n]) = Len(NameRows(n))
    /\ first_call # None =>
           /\ poi_groups = first_call[1].poi_groups
           /\ data_to_write = first_call[1].data_to_write

\* a second call has returned on a processor holding several records, one of
\* which carries its group's side rather than its own observation's
C11_Witness ==
    /\ pc = "done"
    /\ first_call # None
    /\ Len(data_to_write) >= 2
    /\ \E n \in Names :
          \E k \in 1..Len(poi_groups[n]) :
              /\ poi_groups[n][k][1] = "Right"
              /\ NameRows(n)[k].side = "Left"
              /\ NameRows(n)[k].shared_with = Some(SharedWith(poi_groups[n]))

====
